---- MODULE Spec2Model ----
(***************************************************************************)
(* Model of the configuration aggregator (config.py) and of the singleton  *)
(* Firestore client (firebase_client.py): construction of Config and of    *)
(* FirebaseClient, the batched write_market_data and read_market_data.     *)
(*                                                                         *)
(* Python strings are sequences of one-character strings, so that          *)
(* str.replace, str() and int() are computed and not assumed.  Field       *)
(* values of a document are records [ty, n, s] (an integer, a string or    *)
(* the SERVER_TIMESTAMP sentinel) so that all of them are comparable.      *)
(***************************************************************************)
EXTENDS Integers, Sequences, FiniteSets, TLC

\* ----------------------------------------------------------------- bounds
MaxN == 3             \* entries of one data mapping
MaxCalls == 2         \* write_market_data / read_market_data calls of a run
MaxConstructs == 2    \* FirebaseClient() calls of a run
MaxLimit == 2         \* greatest limit passed to read_market_data

\* ----------------------------------------------------------------- values
None == 0

IntV(k) == [ty |-> "int", n |-> k, s |-> <<>>]
StrV(x) == [ty |-> "str", n |-> 0, s |-> x]
SERVER_TIMESTAMP == [ty |-> "sentinel", n |-> 0, s |-> <<>>]

Range(q) == {q[i] : i \in 1..Len(q)}

\* str(timestamp) of a non-negative int: its decimal digits
DigitChars == <<"0", "1", "2", "3", "4", "5", "6", "7", "8", "9">>

RECURSIVE Str(_)
Str(k) == IF k < 10 THEN <<DigitChars[k + 1]>>
          ELSE Str(k \div 10) \o <<DigitChars[(k % 10) + 1]>>

\* int(timestamp) of an int key is the key
IntOf(k) == k

\* symbol.replace('/', '_')
Replace(x, old, new) == [i \in 1..Len(x) |-> IF x[i] = old THEN new ELSE x[i]]

\* config.firebase.collection_prefix, with no FIREBASE_COLLECTION_PREFIX set
collection_prefix == "trading_system"

\* the f-string of write_market_data, as its four "/"-separated segments
WriteCollectionPath(symbol, timeframe) ==
    <<collection_prefix, "market_data", Replace(symbol, "/", "_"), timeframe>>

\* a path built from the symbol as given
ReadCollectionPathRaw(symbol, timeframe) ==
    <<collection_prefix, "market_data", symbol, timeframe>>

\* the f-string of read_market_data, as its four "/"-separated segments
ReadCollectionPath(symbol, timeframe) ==
    <<collection_prefix, "market_data", Replace(symbol, "/", "_"), timeframe>>

\* a merge in which the first dict's value wins
DictMergeKeepFirst(a, b) ==
    [f \in (DOMAIN a) \cup (DOMAIN b) |-> IF f \in DOMAIN a THEN a[f] ELSE b[f]]

\* {**a, **b}: the keys of both, b's value where both have the key
DictMerge(a, b) ==
    [f \in (DOMAIN a) \cup (DOMAIN b) |-> IF f \in DOMAIN b THEN b[f] ELSE a[f]]

EnrichmentFields == {"symbol", "timeframe", "timestamp", "updated_at"}

\* the dict literal handed to batch.set
Payload(candle_data, symbol, timeframe, timestamp) ==
    DictMerge(candle_data,
              [symbol |-> StrV(symbol),
               timeframe |-> StrV(timeframe),
               timestamp |-> IntV(IntOf(timestamp)),
               updated_at |-> SERVER_TIMESTAMP])

\* ------------------------------------------------------------------ state
VARIABLES
    credFile,     \* the file at config.firebase.cred_path: missing, invalid, valid
    api_key,      \* os.getenv("EXCHANGE_API_KEY"): "None", "" or a key
    api_secret,   \* os.getenv("EXCHANGE_API_SECRET")
    config,       \* the module-level Config(): [constructed, raised, groups, warnings]
    apps,         \* firebase_admin._apps is non-empty
    initLog,      \* one entry per initialize_app call: was an app initialized already
    _instance,    \* FirebaseClient._instance: None or the index of an object in objs
    objs,         \* the FirebaseClient objects made so far: each one's _client
    returned,     \* the outcome of every FirebaseClient() call, in order
    store,        \* the documents of the store: a set of [path, id, doc]
    pc,           \* position of the current write_market_data call
    args,         \* its arguments [self, symbol, timeframe, data, batch_size]
    idx,          \* entries of data.items() consumed by the loop
    batch,        \* the writes staged in the current batch
    batch_count,
    commits,      \* the batches this call committed, in order
    attempts,     \* batch.commit() calls of this call, failed one included
    result,       \* "none", "True", "False", or the exception that propagated
    store0,       \* the store when the call started
    calls,        \* write and read calls made so far
    readOut       \* the last read_market_data: [done, symbol, timeframe, limit,
                  \*   order_by, path, status, records]

vars == <<credFile, api_key, api_secret, config, apps, initLog, _instance, objs,
          returned, store, pc, args, idx, batch, batch_count, commits, attempts,
          result, store0, calls, readOut>>

envVars == <<credFile, api_key, api_secret>>
clientVars == <<apps, initLog, _instance, objs, returned>>
writeVars == <<pc, args, idx, batch, batch_count, commits, attempts, result, store0>>

\* ----------------------------------------------------------------- inputs
EnvValues == {"None", "", "k"}
CredFiles == {"missing", "invalid", "valid"}

Timestamps == {5, 12, 103}
Symbols == {<<"A", "/", "B">>}
Timeframes == {<<"1", "h">>}
Candles == {[close |-> IntV(1)],
            [close |-> IntV(2), symbol |-> StrV(<<"X">>), timestamp |-> IntV(0)]}
BatchSizes == (-1)..MaxN
OrderFields == {"timestamp", "close"}

\* data.items() in iteration order: distinct keys, each with its candle
DataMappings ==
    {d \in UNION {[1..n -> [timestamp : Timestamps, candle_data : Candles]] : n \in 0..MaxN} :
        \A i, j \in 1..Len(d) : i # j => d[i].timestamp # d[j].timestamp}

\* ----------------------------------------------------------- config.py
\* bool(value) of an Optional[str]
Truthy(v) == v \notin {"None", ""}

\* os.path.exists(self.firebase.cred_path)
PathExists(file) == file # "missing"

\* a validation that raises when the credential file is missing
_validateStrict(file, key, secret) ==
    [raised |-> ~PathExists(file),
     warnings |->
        (IF ~Truthy(key) \/ ~Truthy(secret)
         THEN <<"Exchange API credentials not set">> ELSE <<>>)]

\* Config._validate: the warnings it logs, and whether it raised
_validate(file, key, secret) ==
    [raised |-> FALSE,
     warnings |->
        (IF ~PathExists(file) THEN <<"Firebase credentials not found">> ELSE <<>>)
        \o (IF ~Truthy(key) \/ ~Truthy(secret)
            THEN <<"Exchange API credentials not set">> ELSE <<>>)]

\* the attributes Config.__init__ assigns before it validates
ConfigGroups == {"firebase", "exchange", "data", "logging"}

\* config = Config(), run once when the module is imported
ConfigInit ==
    /\ ~config.constructed
    /\ LET v == _validate(credFile, api_key, api_secret)
       IN config' = [constructed |-> TRUE,
                     raised |-> v.raised,
                     groups |-> IF v.raised THEN {} ELSE ConfigGroups,
                     warnings |-> v.warnings]
    /\ UNCHANGED <<envVars, clientVars, store, writeVars, calls, readOut>>

\* ------------------------------------------------- FirebaseClient()
\* a __new__ that makes an object on every call
AlwaysNewInstance(inst) == TRUE

\* __new__: cls._instance is None
NeedsNewInstance(inst) == inst = None

\* _initialize: not firebase_admin._apps
ShouldInitializeApp(appsNow) == ~appsNow

\* credentials.Certificate(path) raises FileNotFoundError or ValueError
CertificateRaises(file) == file # "valid"

\* _initialize on a new object whose fresh client handle would be h
_initialize(appsNow, file, h) ==
    IF ShouldInitializeApp(appsNow)
    THEN IF CertificateRaises(file)
         THEN [raised |-> TRUE, apps |-> appsNow, initialized |-> FALSE, client |-> None]
         ELSE [raised |-> FALSE, apps |-> TRUE, initialized |-> TRUE, client |-> h]
    ELSE [raised |-> FALSE, apps |-> appsNow, initialized |-> FALSE, client |-> h]

Idle == pc = "idle"

Construct ==
    /\ Idle
    /\ config.constructed /\ ~config.raised
    /\ Len(returned) < MaxConstructs
    /\ IF NeedsNewInstance(_instance)
       THEN LET id == Len(objs) + 1
                r == _initialize(apps, credFile, id)
            IN /\ objs' = Append(objs, r.client)
               /\ _instance' = id
               /\ apps' = r.apps
               /\ initLog' = IF r.initialized THEN Append(initLog, apps) ELSE initLog
               /\ returned' = Append(returned,
                      [kind |-> IF r.raised THEN "ConnectionError" ELSE "ok",
                       inst |-> IF r.raised THEN None ELSE id,
                       client |-> r.client,
                       credFile |-> credFile,
                       appsBefore |-> apps])
       ELSE /\ returned' = Append(returned,
                      [kind |-> "ok", inst |-> _instance, client |-> objs[_instance],
                       credFile |-> credFile, appsBefore |-> apps])
            /\ UNCHANGED <<objs, _instance, apps, initLog>>
    /\ UNCHANGED <<envVars, config, store, writeVars, calls, readOut>>

\* the objects a caller holds: those some FirebaseClient() call returned
Held == {returned[i].inst : i \in {j \in 1..Len(returned) : returned[j].kind = "ok"}}

\* ------------------------------------------------------ write_market_data
\* batch.set(doc_ref, payload) for one entry of data.items()
StagedWrite(symbol, timeframe, entry) ==
    [path |-> WriteCollectionPath(symbol, timeframe),
     id |-> Str(entry.timestamp),
     doc |-> Payload(entry.candle_data, symbol, timeframe, entry.timestamp)]

\* batch_count >= batch_size
BatchFull(count, batch_size) == count >= batch_size

\* the store after an atomic commit of the staged writes b (a later set of the
\* same document replaces an earlier one)
Committed(st, b) ==
    {d \in st : \A i \in 1..Len(b) : ~(b[i].path = d.path /\ b[i].id = d.id)}
    \cup {b[i] : i \in {j \in 1..Len(b) :
                   \A k \in (j + 1)..Len(b) : ~(b[k].path = b[j].path /\ b[k].id = b[j].id)}}

NoArgs == [self |-> None, symbol |-> <<>>, timeframe |-> <<>>, data |-> <<>>,
           batch_size |-> 0]

\* the call, up to batch = self.client.batch(); the client property raises
\* RuntimeError on an object without a client, which the except clause lets through
WriteCall(self, symbol, timeframe, data, batch_size) ==
    /\ Idle
    /\ calls < MaxCalls
    /\ calls' = calls + 1
    /\ args' = [self |-> self, symbol |-> symbol, timeframe |-> timeframe,
                data |-> data, batch_size |-> batch_size]
    /\ idx' = 0
    /\ batch' = <<>>
    /\ batch_count' = 0
    /\ commits' = <<>>
    /\ attempts' = 0
    /\ store0' = store
    /\ IF objs[self] = None
       THEN pc' = "done" /\ result' = "RuntimeError"
       ELSE pc' = "loop" /\ result' = "none"
    /\ UNCHANGED <<envVars, config, clientVars, store, readOut>>

\* one iteration of the for loop, up to the test of batch_count
WriteStage ==
    /\ pc = "loop"
    /\ idx < Len(args.data)
    /\ idx' = idx + 1
    /\ batch' = Append(batch, StagedWrite(args.symbol, args.timeframe, args.data[idx + 1]))
    /\ batch_count' = batch_count + 1
    /\ pc' = IF BatchFull(batch_count + 1, args.batch_size) THEN "commit" ELSE "loop"
    /\ UNCHANGED <<envVars, config, clientVars, store, args, commits, attempts,
                   result, store0, calls, readOut>>

\* batch.commit() inside the loop succeeds; a new batch is started
WriteCommit ==
    /\ pc = "commit"
    /\ store' = Committed(store, batch)
    /\ commits' = Append(commits, batch)
    /\ attempts' = attempts + 1
    /\ batch' = <<>>
    /\ batch_count' = 0
    /\ pc' = "loop"
    /\ UNCHANGED <<envVars, config, clientVars, args, idx, result, store0, calls, readOut>>

\* an except clause that commits the batch again before it returns False
WriteCommitFailsRetries ==
    /\ pc \in {"commit", "final"}
    /\ attempts' = attempts + 2
    /\ store' = Committed(store, batch)
    /\ commits' = Append(commits, batch)
    /\ result' = "False"
    /\ pc' = "done"
    /\ UNCHANGED <<envVars, config, clientVars, args, idx, batch, batch_count,
                   store0, calls, readOut>>

\* batch.commit() raises a store error: the except clause returns False
WriteCommitFails ==
    /\ pc \in {"commit", "final"}
    /\ attempts' = attempts + 1
    /\ result' = "False"
    /\ pc' = "done"
    /\ UNCHANGED <<envVars, config, clientVars, store, args, idx, batch, batch_count,
                   commits, store0, calls, readOut>>

\* a loop end that returns True without the commit of the remainder
WriteLoopEndNoFlush ==
    /\ pc = "loop"
    /\ idx = Len(args.data)
    /\ pc' = "done"
    /\ result' = "True"
    /\ UNCHANGED <<envVars, config, clientVars, store, args, idx, batch, batch_count,
                   commits, attempts, store0, calls, readOut>>

\* the loop is over: if batch_count > 0 a last commit follows, else return True
WriteLoopEnd ==
    /\ pc = "loop"
    /\ idx = Len(args.data)
    /\ IF batch_count > 0
       THEN pc' = "final" /\ UNCHANGED result
       ELSE pc' = "done" /\ result' = "True"
    /\ UNCHANGED <<envVars, config, clientVars, store, args, idx, batch, batch_count,
                   commits, attempts, store0, calls, readOut>>

\* the commit of the remainder succeeds; return True
WriteFinalCommit ==
    /\ pc = "final"
    /\ store' = Committed(store, batch)
    /\ commits' = Append(commits, batch)
    /\ attempts' = attempts + 1
    /\ result' = "True"
    /\ pc' = "done"
    /\ UNCHANGED <<envVars, config, clientVars, args, idx, batch, batch_count,
                   store0, calls, readOut>>

\* ------------------------------------------------------- read_market_data
\* the documents query.order_by(field, DESCENDING).limit(limit) selects: those of
\* the collection that have the field, greatest values first, at most limit
QueryResults(st, path, field, limit) ==
    LET cands == {d \in st : d.path = path /\ field \in DOMAIN d.doc}
        m == IF Cardinality(cands) < limit THEN Cardinality(cands) ELSE limit
    IN {q \in [1..m -> cands] :
          /\ \A i, j \in 1..m : i < j => q[i] # q[j] /\ q[i].doc[field].n >= q[j].doc[field].n
          /\ \A d \in cands \ Range(q) : \A i \in 1..m : q[i].doc[field].n >= d.doc[field].n}

NoRead == [done |-> FALSE, symbol |-> <<>>, timeframe |-> <<>>, limit |-> 0,
           order_by |-> "", path |-> <<>>, status |-> "none", records |-> <<>>]

\* the path and the query are built by the lines the file keeps; what the call
\* returns, and what it does with an error, is past the end of the file
ReadCall(self, symbol, timeframe, limit, order_by) ==
    /\ Idle
    /\ calls < MaxCalls
    /\ calls' = calls + 1
    /\ LET path == ReadCollectionPath(symbol, timeframe)
       IN IF objs[self] = None
          THEN readOut' = [done |-> TRUE, symbol |-> symbol, timeframe |-> timeframe,
                           limit |-> limit, order_by |-> order_by, path |-> path,
                           status |-> "error", records |-> <<>>]
          ELSE \E q \in QueryResults(store, path, order_by, limit) :
                  readOut' = [done |-> TRUE, symbol |-> symbol, timeframe |-> timeframe,
                              limit |-> limit, order_by |-> order_by, path |-> path,
                              status |-> "ok", records |-> q]
    /\ pc' = "done"
    /\ UNCHANGED <<envVars, config, clientVars, store, args, idx, batch, batch_count,
                   commits, attempts, result, store0>>

\* the call is over and its locals are gone
Return ==
    /\ pc = "done"
    /\ pc' = "idle"
    /\ args' = NoArgs
    /\ idx' = 0
    /\ batch' = <<>>
    /\ batch_count' = 0
    /\ commits' = <<>>
    /\ attempts' = 0
    /\ result' = "none"
    /\ store0' = {}
    /\ readOut' = NoRead
    /\ UNCHANGED <<envVars, config, clientVars, store, calls>>

\* ------------------------------------------------------------ the program
\* the process starts: the environment is fixed, nothing is constructed, the
\* store is empty
Start ==
    /\ config = [constructed |-> FALSE, raised |-> FALSE, groups |-> {}, warnings |-> <<>>]
    /\ apps \in BOOLEAN
    /\ initLog = <<>>
    /\ _instance = None
    /\ objs = <<>>
    /\ returned = <<>>
    /\ store = {}
    /\ pc = "idle"
    /\ args = NoArgs
    /\ idx = 0
    /\ batch = <<>>
    /\ batch_count = 0
    /\ commits = <<>>
    /\ attempts = 0
    /\ result = "none"
    /\ store0 = {}
    /\ calls = 0
    /\ readOut = NoRead

\* no exchange credentials in the environment
Init ==
    /\ credFile \in {"missing", "valid"}
    /\ api_key = "None"
    /\ api_secret = "None"
    /\ Start

\* every environment
InitEnv ==
    /\ credFile \in CredFiles
    /\ api_key \in EnvValues
    /\ api_secret \in EnvValues
    /\ Start

Write ==
    /\ Idle
    /\ \E self \in Held, symbol \in Symbols, timeframe \in Timeframes,
          data \in DataMappings, batch_size \in BatchSizes :
           WriteCall(self, symbol, timeframe, data, batch_size)

Read ==
    /\ Idle
    /\ \E self \in Held, symbol \in Symbols, timeframe \in Timeframes,
          limit \in 1..MaxLimit, order_by \in OrderFields :
           ReadCall(self, symbol, timeframe, limit, order_by)

Next ==
    \/ ConfigInit
    \/ Construct
    \/ Write
    \/ WriteStage
    \/ WriteCommit
    \/ WriteCommitFails
    \/ WriteLoopEnd
    \/ WriteFinalCommit
    \/ Read
    \/ Return

Spec == Init /\ [][Next]_vars

\* the constructions alone, in every environment
NextConstruct ==
    \/ ConfigInit
    \/ Construct

SpecConstruct == InitEnv /\ [][NextConstruct]_vars

\* ----------------------------------------------------------------- claims
WriteDone == pc = "done" /\ args.self # None
ReadDone == pc = "done" /\ readOut.done

NEntries == Len(args.data)

CeilDiv(n, b) == (n + b - 1) \div b

RECURSIVE Flatten(_)
Flatten(qs) == IF qs = <<>> THEN <<>> ELSE qs[1] \o Flatten(Tail(qs))

DigitValue(c) == CHOOSE d \in 0..9 : DigitChars[d + 1] = c

RECURSIVE ParseInt(_)
ParseInt(x) == IF x = <<>> THEN 0
               ELSE ParseInt(SubSeq(x, 1, Len(x) - 1)) * 10 + DigitValue(x[Len(x)])

\* the documents of a store under one key
Slot(st, path, id) == {d \in st : d.path = path /\ d.id = id}

\* C1: a write_market_data call with N entries and a positive batch_size B in
\* which no commit fails issues exactly ceil(N/B) commits, each of at most B
\* documents, the last of N mod B documents (B when B divides N > 0).
C1_CommitCount ==
    (WriteDone /\ args.batch_size > 0 /\ attempts = Len(commits)) =>
        /\ Len(commits) = CeilDiv(NEntries, args.batch_size)
        /\ \A k \in 1..Len(commits) : Len(commits[k]) <= args.batch_size
        /\ NEntries > 0 =>
              Len(commits[Len(commits)]) =
                 (IF NEntries % args.batch_size = 0 THEN args.batch_size
                  ELSE NEntries % args.batch_size)

\* C1, for the calls made on an object that has its client
C1_CommitCountWithClient ==
    (WriteDone /\ objs[args.self] # None) => C1_CommitCount

\* C3: every write_market_data call ends by returning a boolean, True exactly
\* when every staged batch was committed, False when an error occurred.
C3_ReturnsBoolean ==
    WriteDone =>
        /\ result \in {"True", "False"}
        /\ result = "True" <=> (attempts = Len(commits) /\ Len(Flatten(commits)) = idx)

\* C3, for the calls made on an object that has its client
C3_ReturnsBooleanWithClient ==
    (WriteDone /\ objs[args.self] # None) => C3_ReturnsBoolean

\* C6: write_market_data with an empty data mapping stages nothing, commits
\* nothing, leaves the store as it was and returns True.
C6_EmptyIsNoOp ==
    (WriteDone /\ NEntries = 0) =>
        /\ batch = <<>>
        /\ attempts = 0
        /\ store = store0
        /\ result = "True"

\* C6, for the calls made on an object that has its client
C6_EmptyIsNoOpWithClient ==
    (WriteDone /\ objs[args.self] # None) => C6_EmptyIsNoOp

\* the batch size the loop works with: a batch is flushed after every entry
\* when batch_size is below one
Effective(batch_size) == IF batch_size < 1 THEN 1 ELSE batch_size

Min(a, b) == IF a < b THEN a ELSE b

EntryWrite(i) == StagedWrite(args.symbol, args.timeframe, args.data[i])

\* C2: when the k-th commit of a call fails, the documents of batches 1..k-1
\* are in the store, no document of batch k or of a later batch is, no further
\* commit is attempted and the call returns False.
C2_PartialFailure ==
    (WriteDone /\ attempts > Len(commits)) =>
        LET k == attempts
            done == (k - 1) * Effective(args.batch_size)
        IN /\ Len(commits) = k - 1
           /\ done < NEntries
           /\ \A i \in 1..done : EntryWrite(i) \in store
           /\ \A i \in (done + 1)..NEntries :
                 Slot(store, EntryWrite(i).path, EntryWrite(i).id)
                    = Slot(store0, EntryWrite(i).path, EntryWrite(i).id)
           /\ idx = Min(k * Effective(args.batch_size), NEntries)
           /\ result = "False"

\* the second commit of a call of three entries failed, over a store that held
\* documents before the call
C2_Witness ==
    /\ WriteDone /\ result = "False"
    /\ attempts = 2 /\ NEntries = 3 /\ args.batch_size = 1
    /\ store0 # {}

\* C4: all FirebaseClient() calls that return yield the same instance with the
\* same client handle, initialize_app is called at most once, and never while
\* an app is already initialized.
C4_Singleton ==
    /\ \A i, j \in 1..Len(returned) :
          (returned[i].kind = "ok" /\ returned[j].kind = "ok") =>
              /\ returned[i].inst = returned[j].inst
              /\ returned[i].client = returned[j].client
    /\ \A i \in 1..Len(returned) :
          returned[i].kind = "ok" => objs[returned[i].inst] = returned[i].client
    /\ Len(initLog) <= 1
    /\ \A i \in 1..Len(initLog) : initLog[i] = FALSE

\* two calls returned an initialized client and the app was initialized once
C4_Witness ==
    /\ Len(returned) >= 2
    /\ returned[1].kind = "ok" /\ returned[2].kind = "ok"
    /\ returned[2].client # None
    /\ Len(initLog) = 1

\* C5: every FirebaseClient() call made while the credential file is missing
\* or invalid and no app is initialized fails with a ConnectionError and hands
\* no instance to the caller, the first call and every later one.
C5_AlwaysConnectionError ==
    \A i \in 1..Len(returned) :
        (returned[i].credFile # "valid" /\ ~returned[i].appsBefore) =>
            /\ returned[i].kind = "ConnectionError"
            /\ returned[i].inst = None

\* C5, for the first call only
C5_FirstConnectionError ==
    Len(returned) >= 1 =>
        ((returned[1].credFile # "valid" /\ ~returned[1].appsBefore) =>
            returned[1].kind = "ConnectionError" /\ returned[1].inst = None)

\* the writes staged so far by the current call
StagedNow == Range(batch) \cup Range(Flatten(commits))

\* C7 as amended: a staged document is keyed by the decimal string of its
\* timestamp, its fields are the candle's fields and the four enrichment
\* fields, the enrichment fields hold symbol, timeframe, the integer timestamp
\* and the server timestamp (replacing a candle field of the same name), and
\* every other candle field keeps its value.
C7_Enriched ==
    (pc # "idle" /\ args.self # None) =>
        /\ Cardinality(StagedNow) = idx
        /\ \A i \in 1..idx : \E w \in StagedNow :
              LET e == args.data[i] IN
              /\ ParseInt(w.id) = e.timestamp
              /\ (Len(w.id) > 1 => w.id[1] # "0")
              /\ DOMAIN w.doc = (DOMAIN e.candle_data) \cup EnrichmentFields
              /\ w.doc["symbol"] = StrV(args.symbol)
              /\ w.doc["timeframe"] = StrV(args.timeframe)
              /\ w.doc["timestamp"] = IntV(e.timestamp)
              /\ w.doc["updated_at"] = SERVER_TIMESTAMP
              /\ \A f \in (DOMAIN e.candle_data) \ EnrichmentFields :
                    w.doc[f] = e.candle_data[f]

\* C7: ... and contains the original candle fields with their original
\* values, also for a payload that carries a field named like an enrichment
\* field.
C7_OriginalValuesKept ==
    (pc # "idle" /\ args.self # None) =>
        \A i \in 1..idx : \E w \in StagedNow :
            LET e == args.data[i] IN
            /\ ParseInt(w.id) = e.timestamp
            /\ DOMAIN w.doc = (DOMAIN e.candle_data) \cup EnrichmentFields
            /\ w.doc["symbol"] = StrV(args.symbol)
            /\ w.doc["timeframe"] = StrV(args.timeframe)
            /\ w.doc["timestamp"] = IntV(e.timestamp)
            /\ w.doc["updated_at"] = SERVER_TIMESTAMP
            /\ \A f \in DOMAIN e.candle_data : w.doc[f] = e.candle_data[f]

\* a candle that carries its own symbol and timestamp fields was staged, with
\* a three-digit key
C7_Witness ==
    /\ pc = "loop" /\ idx = 2
    /\ "symbol" \in DOMAIN args.data[2].candle_data
    /\ args.data[2].timestamp = 103

\* C8: Config() never raises because of validation: with the credential file
\* missing, or the API key or the API secret absent, it logs a warning for the
\* condition and still returns a bundle with all four groups.
C8_ValidationWarnsOnly ==
    config.constructed =>
        /\ ~config.raised
        /\ config.groups = {"firebase", "exchange", "data", "logging"}
        /\ credFile = "missing" =>
              \E i \in 1..Len(config.warnings) :
                  config.warnings[i] = "Firebase credentials not found"
        /\ (api_key = "None" \/ api_secret = "None") =>
              \E i \in 1..Len(config.warnings) :
                  config.warnings[i] = "Exchange API credentials not set"

\* Config() was constructed with no credential file and no API key, and
\* logged both warnings
C8_Witness ==
    /\ config.constructed /\ ~config.raised
    /\ credFile = "missing" /\ api_key = "None" /\ api_secret = "k"
    /\ Len(config.warnings) = 2

Rank ==
    3 * (NEntries - idx)
      + (CASE pc = "commit" -> 3 [] pc = "loop" -> 2 [] pc = "final" -> 1 [] OTHER -> 0)

\* when write_market_data returns True every entry is in exactly one
\* committed batch, in the order of data.items(), and nothing staged is left
C10_AllCommitted ==
    (WriteDone /\ result = "True") =>
        /\ idx = NEntries
        /\ Flatten(commits) = [i \in 1..NEntries |-> EntryWrite(i)]
        /\ \A k \in 1..Len(commits) : commits[k] # <<>>
        /\ Range(batch) \subseteq Range(Flatten(commits))
        /\ \A i \in 1..NEntries : EntryWrite(i) \in store

\* every step of a running call brings it nearer to its end
C10_Progress ==
    (pc \in {"loop", "commit", "final"}) => (Rank' < Rank /\ Rank' >= 0)

\* C10: whenever write_market_data returns True every entry of data was staged
\* into exactly one batch, the batches were committed in the iteration order
\* of data and no staged write is left uncommitted; for every batch_size, zero
\* and negative ones included, the loop terminates.
C10_CompleteAndTerminates == [](C10_AllCommitted) /\ [][C10_Progress]_vars

\* a call with batch_size 0 and three entries returned True
C10_Witness ==
    /\ WriteDone /\ result = "True"
    /\ args.batch_size = 0 /\ NEntries = 3

\* a call with a negative batch_size returned True
C10_WitnessNegative ==
    /\ WriteDone /\ result = "True"
    /\ args.batch_size < 0 /\ NEntries = 2

====
